---------------------------- MODULE Spec2Model ----------------------------
(***************************************************************************)
(* Model of app.py (smart-kitchen-assistant): one Streamlit session.       *)
(*                                                                         *)
(* Every user interaction starts one run of main() (followed by a second   *)
(* run when the handler calls st.rerun()).  An action of this module is    *)
(* one such interaction: the button handler, and the whole of the page     *)
(* code executed by the run(s) it starts.                                  *)
(*                                                                         *)
(* Text is a sequence of one-character strings, so that split and strip    *)
(* are computed as Python computes them.  A date is a day number.          *)
(***************************************************************************)
EXTENDS Integers, Sequences, FiniteSets, TLC

VARIABLES
    page,            \* st.session_state.page
    images,          \* st.session_state.images (the gallery)
    uploaded_files,  \* files held by the file_uploader / camera_input widget
    ingredients,     \* st.session_state.ingredients
    recipes,         \* st.session_state.recipes
    shelf,           \* st.session_state.shelf
    selected_items,  \* st.session_state.selected_items (absent = empty)
    today,           \* the value datetime.date.today() gave the last run
    rendered,        \* what the last run put on the screen
    flags,           \* the notifications shelf_page raised in the last run
    calls,           \* external model calls made by the last run
    reports          \* st.error reports made on behalf of those calls

vars == <<page, images, uploaded_files, ingredients, recipes, shelf,
          selected_items, today, rendered, flags, calls, reports>>

---------------------------------------------------------------------------
(* Bounds of the model.                                                    *)

\* the days datetime.date.today() takes during the session: Day0 .. MaxDay
MaxDay == 2
\* Add to shelf is explored while the item's Quantity stays within this cap
MaxQuantity == 5
\* images in one call of identify_items
MaxBatch == 2

\* the first day of the session
Day0 == 1
\* the most files one upload holds
MaxFiles == 3

---------------------------------------------------------------------------
(* Text.                                                                   *)

Salt     == <<"S", "a", "l", "t">>
Pepper   == <<"P", "e", "p", "p", "e", "r">>
OliveOil == <<"O", "l", "i", "v", "e", " ", "O", "i", "l">>
Garlic   == <<"G", "a", "r", "l", "i", "c">>
Tomato   == <<"T", "o", "m", "a", "t", "o">>
tomato   == <<"t", "o", "m", "a", "t", "o">>

\* characters str.strip() removes
Whitespace == {" ", "\n", "\t"}

\* index of the first occurrence of sep in s at or after i, 0 when there is none
RECURSIVE find(_, _, _)
find(s, sep, i) ==
    IF i > Len(s) THEN 0
    ELSE IF s[i] = sep THEN i
    ELSE find(s, sep, i + 1)

\* str.split(sep): always at least one token, "" included
RECURSIVE split(_, _)
split(s, sep) ==
    LET i == find(s, sep, 1)
    IN  IF i = 0 THEN <<s>>
        ELSE <<SubSeq(s, 1, i - 1)>> \o split(SubSeq(s, i + 1, Len(s)), sep)

RECURSIVE lstrip(_)
lstrip(s) ==
    IF s # <<>> /\ Head(s) \in Whitespace THEN lstrip(Tail(s)) ELSE s

RECURSIVE rstrip(_)
rstrip(s) ==
    IF s # <<>> /\ s[Len(s)] \in Whitespace
    THEN rstrip(SubSeq(s, 1, Len(s) - 1)) ELSE s

\* str.strip()
strip(s) == rstrip(lstrip(s))

\* sep.join(list)
RECURSIVE join(_, _)
join(sep, list) ==
    IF list = <<>> THEN <<>>
    ELSE IF Len(list) = 1 THEN list[1]
    ELSE list[1] \o <<sep>> \o join(sep, Tail(list))

\* [f(x) for x in list]
stripAll(list) == [i \in 1..Len(list) |-> strip(list[i])]

Range(seq) == {seq[i] : i \in 1..Len(seq)}

\* the orders list(set(...)) may give the elements of S
Orders(S) ==
    {q \in [1..Cardinality(S) -> S] : Range(q) = S}

---------------------------------------------------------------------------
(* Images.  An image is its pixel content.  image_to_bytes re-encodes it   *)
(* as JPEG, which is lossy: images 1 and 2 differ in pixels and encode to  *)
(* the same bytes, image 3 encodes to other bytes.                         *)

Images == {1, 2, 3}

image_to_bytes(image) == IF image = 2 THEN 1 ELSE image

\* hashlib.md5(...).hexdigest(), injective on the encodings of the model
md5(bytes) == (bytes * 37 + 11) % 101

image_hash(image) == md5(image_to_bytes(image))

\* is_duplicate comparing with the last image of the gallery only
is_duplicate_last(new_image, existing_images) ==
    /\ existing_images # <<>>
    /\ image_hash(existing_images[Len(existing_images)]) = image_hash(new_image)

is_duplicate(new_image, existing_images) ==
    LET new_hash == image_hash(new_image)
    IN  \E i \in 1..Len(existing_images) :
            image_hash(existing_images[i]) = new_hash

---------------------------------------------------------------------------
(* The external models.  A call either returns a text or raises.           *)

Returned(t) == [ok |-> TRUE, text |-> t]
\* the recognition call raising; the text-generation call raising
Raised     == [ok |-> FALSE, text |-> <<>>]
RaisedText == [ok |-> FALSE, text |-> ""]

\* all_items with the loop left at the first call that raises
RECURSIVE all_items_abort(_, _, _)
all_items_abort(imgs, responses, i) ==
    IF i > Len(imgs) THEN <<>>
    ELSE IF responses[i].ok
         THEN stripAll(split(responses[i].text, ","))
                  \o all_items_abort(imgs, responses, i + 1)
         ELSE <<>>

\* all_items after the loop of identify_items has processed images i..n;
\* responses[i] is what model.generate_content does for image i
RECURSIVE all_items(_, _, _)
all_items(imgs, responses, i) ==
    IF i > Len(imgs) THEN <<>>
    ELSE LET rest == all_items(imgs, responses, i + 1)
         IN  IF responses[i].ok
             THEN stripAll(split(responses[i].text, ",")) \o rest
             ELSE rest            \* except: st.error, next image

\* identify_items returning all_items itself, without set()
identify_items_no_set(imgs, responses) ==
    [results |-> {all_items(imgs, responses, 1)},
     calls   |-> Len(imgs),
     reports |-> Cardinality({i \in 1..Len(imgs) : ~responses[i].ok})]

\* identify_items: the lists list(set(all_items)) may return (a set has no
\* order), one call per image and one st.error per call that raises
identify_items(imgs, responses) ==
    [results |-> Orders(Range(all_items(imgs, responses, 1))),
     calls   |-> Len(imgs),
     reports |-> Cardinality({i \in 1..Len(imgs) : ~responses[i].ok})]

Fallback == "Unable to generate recipe. Please try again."

\* generate_recipe swallowing the failure: no report, no fallback text
generate_recipe_silent(items, outcome) ==
    [text |-> outcome.text, reports |-> 0]

\* generate_recipe: the prompt (items, diet, cuisine) only shapes the text
\* sent to the external model, whose answer is the outcome
generate_recipe(items, outcome) ==
    IF outcome.ok
    THEN [text |-> outcome.text, reports |-> 0]
    ELSE [text |-> Fallback, reports |-> 1]

\* generate_loop appending only the recipes whose call returned
RECURSIVE generate_loop_skip_failed(_, _, _, _)
generate_loop_skip_failed(items, outcomes, num_recipes, k) ==
    IF k > num_recipes THEN [recipes |-> <<>>, calls |-> 0, reports |-> 0]
    ELSE LET recipe == generate_recipe(items, outcomes[k])
             rest   == generate_loop_skip_failed(items, outcomes, num_recipes, k + 1)
         IN  [recipes |-> (IF outcomes[k].ok THEN <<recipe.text>> ELSE <<>>)
                             \o rest.recipes,
              calls   |-> 1 + rest.calls,
              reports |-> recipe.reports + rest.reports]

\* generate_multiple_recipes: outcomes[k] is what the k-th call does; the
\* loop stops after num_recipes iterations
RECURSIVE generate_loop(_, _, _, _)
generate_loop(items, outcomes, num_recipes, k) ==
    IF k > num_recipes THEN [recipes |-> <<>>, calls |-> 0, reports |-> 0]
    ELSE LET recipe == generate_recipe(items, outcomes[k])
             rest   == generate_loop(items, outcomes, num_recipes, k + 1)
         IN  [recipes |-> <<recipe.text>> \o rest.recipes,
              calls   |-> 1 + rest.calls,
              reports |-> recipe.reports + rest.reports]

generate_multiple_recipes(items, outcomes, num_recipes) ==
    generate_loop(items, outcomes, num_recipes, 1)

---------------------------------------------------------------------------
(* The shelf.                                                              *)

\* a shelf item without the 'Expiry' key
NoExpiry == -1

LOW_QUANTITY_THRESHOLD == 2
ExpirySoonDays == 2
DefaultExpiryDays == 7

PantryItems ==
    << [Ingredient |-> Salt,     Quantity |-> 0, Expiry |-> NoExpiry],
       [Ingredient |-> Pepper,   Quantity |-> 0, Expiry |-> NoExpiry],
       [Ingredient |-> OliveOil, Quantity |-> 0, Expiry |-> NoExpiry],
       [Ingredient |-> Garlic,   Quantity |-> 0, Expiry |-> NoExpiry] >>

\* index of the first item named name, 0 when there is none: next(..., None)
RECURSIVE existing_item(_, _, _)
existing_item(shf, name, i) ==
    IF i > Len(shf) THEN 0
    ELSE IF shf[i].Ingredient = name THEN i
    ELSE existing_item(shf, name, i + 1)

\* add_to_shelf without the lookup of the existing item
add_to_shelf_append(shf, ingredient_to_add, quantity, expiry_date) ==
    Append(shf, [Ingredient |-> ingredient_to_add,
                 Quantity   |-> quantity,
                 Expiry     |-> expiry_date])

\* add_to_shelf leaving the Expiry of an existing item as it was
add_to_shelf_keep_expiry(shf, ingredient_to_add, quantity, expiry_date) ==
    LET i == existing_item(shf, ingredient_to_add, 1)
    IN  IF i # 0
        THEN [shf EXCEPT ![i].Quantity = @ + quantity]
        ELSE Append(shf, [Ingredient |-> ingredient_to_add,
                          Quantity   |-> quantity,
                          Expiry     |-> expiry_date])

\* the body of `if st.button("Add to shelf")`
add_to_shelf(shf, ingredient_to_add, quantity, expiry_date) ==
    LET i == existing_item(shf, ingredient_to_add, 1)
    IN  IF i # 0
        THEN [shf EXCEPT ![i] = [Ingredient |-> shf[i].Ingredient,
                                 Quantity   |-> shf[i].Quantity + quantity,
                                 Expiry     |-> expiry_date]]
        ELSE Append(shf, [Ingredient |-> ingredient_to_add,
                          Quantity   |-> quantity,
                          Expiry     |-> expiry_date])

\* remove_ingredient with the comparison inverted: only the named item stays
remove_ingredient_keep(shf, ingredient_to_remove) ==
    SelectSeq(shf, LAMBDA item : item.Ingredient = ingredient_to_remove)

\* [item for item in shelf if item['Ingredient'] != ingredient_to_remove]
remove_ingredient(shf, ingredient_to_remove) ==
    SelectSeq(shf, LAMBDA item : item.Ingredient # ingredient_to_remove)

\* remove_selected comparing with the first selected name only
remove_selected_first(shf, selected) ==
    SelectSeq(shf, LAMBDA item : selected = <<>> \/ item.Ingredient # selected[1])

\* [item for item in shelf if item['Ingredient'] not in selected_items]
remove_selected(shf, selected) ==
    SelectSeq(shf, LAMBDA item : item.Ingredient \notin Range(selected))

\* the shelf after a generation, depleted only when a call gave a recipe
shelf_after_generation_if_ok(shf, selected, rec) ==
    IF \A k \in 1..Len(rec) : rec[k] = Fallback
    THEN shf
    ELSE remove_selected(shf, selected)

\* the shelf after 'Generate Recipes': the recipes are stored, then the
\* selected items are removed, whatever the recipes are
shelf_after_generation(shf, selected, rec) == remove_selected(shf, selected)

\* default_expiry without the test for a missing 'Expiry'
default_expiry_always(shf, TODAY) ==
    [i \in 1..Len(shf) |-> [shf[i] EXCEPT !.Expiry = TODAY + DefaultExpiryDays]]

\* the first loop of shelf_page: items without 'Expiry' get the default
default_expiry(shf, TODAY) ==
    [i \in 1..Len(shf) |->
        IF shf[i].Expiry = NoExpiry
        THEN [shf[i] EXCEPT !.Expiry = TODAY + DefaultExpiryDays]
        ELSE shf[i]]

\* item_flags with the day of expiry counted as expired
item_flags_expired_today(item, TODAY) ==
    (IF item.Quantity < LOW_QUANTITY_THRESHOLD THEN {"LowQuantity"} ELSE {})
    \cup
    (IF item.Expiry <= TODAY THEN {"Expired"}
     ELSE IF item.Expiry <= TODAY + ExpirySoonDays THEN {"ExpiringSoon"}
     ELSE {})

\* the notifications of the second loop of shelf_page for one item
item_flags(item, TODAY) ==
    (IF item.Quantity < LOW_QUANTITY_THRESHOLD THEN {"LowQuantity"} ELSE {})
    \cup
    (IF item.Expiry < TODAY THEN {"Expired"}
     ELSE IF item.Expiry <= TODAY + ExpirySoonDays THEN {"ExpiringSoon"}
     ELSE {})

shelf_flags(shf, TODAY) == [i \in 1..Len(shf) |-> item_flags(shf[i], TODAY)]

---------------------------------------------------------------------------
(* The recipes of the week shown on the home page.  A day is a day number;  *)
(* day 0 is a Monday.                                                      *)

\* the keys of the recipes dictionary
recipe_catalog ==
    { "Spicy Tomato Rice with Crispy Bread Crumbs",
      "Coconut Curry Rice with Toasted Almonds",
      "Lemon Herb Quinoa with Roasted Vegetables",
      "Garlicky Spinach and Mushroom Risotto",
      "Creamy Broccoli and Cheddar Rice Bake",
      "Turmeric Rice with Grilled Tofu",
      "Coconut Rice with Mango Salsa",
      "Peanut Butter Fried Rice",
      "Spiced Cauliflower Rice with Chickpeas",
      "Saffron Rice with Roasted Chicken",
      "Mexican Rice with Black Beans",
      "Mediterranean Rice with Feta and Olives",
      "Ginger Garlic Fried Rice",
      "Pumpkin Risotto" }

days_of_week ==
    <<"Monday", "Tuesday", "Wednesday", "Thursday", "Friday", "Saturday",
      "Sunday">>

\* the schedule with the last name misspelt
weekly_recipes_typo ==
    << <<"Spicy Tomato Rice with Crispy Bread Crumbs",
         "Coconut Curry Rice with Toasted Almonds">>,
       <<"Lemon Herb Quinoa with Roasted Vegetables",
         "Garlicky Spinach and Mushroom Risotto">>,
       <<"Creamy Broccoli and Cheddar Rice Bake",
         "Turmeric Rice with Grilled Tofu">>,
       <<"Coconut Rice with Mango Salsa",
         "Peanut Butter Fried Rice">>,
       <<"Spiced Cauliflower Rice with Chickpeas",
         "Saffron Rice with Roasted Chicken">>,
       <<"Mexican Rice with Black Beans",
         "Mediterranean Rice with Feta and Olives">>,
       <<"Ginger Garlic Fried Rice",
         "Pumpkin Risoto">> >>

weekly_recipes ==
    << <<"Spicy Tomato Rice with Crispy Bread Crumbs",
         "Coconut Curry Rice with Toasted Almonds">>,
       <<"Lemon Herb Quinoa with Roasted Vegetables",
         "Garlicky Spinach and Mushroom Risotto">>,
       <<"Creamy Broccoli and Cheddar Rice Bake",
         "Turmeric Rice with Grilled Tofu">>,
       <<"Coconut Rice with Mango Salsa",
         "Peanut Butter Fried Rice">>,
       <<"Spiced Cauliflower Rice with Chickpeas",
         "Saffron Rice with Roasted Chicken">>,
       <<"Mexican Rice with Black Beans",
         "Mediterranean Rice with Feta and Olives">>,
       <<"Ginger Garlic Fried Rice",
         "Pumpkin Risotto">> >>

\* datetime.datetime.now().strftime("%A")
current_day(TODAY) == days_of_week[(TODAY % Len(days_of_week)) + 1]

day_index(TODAY) ==
    CHOOSE i \in 1..Len(days_of_week) : days_of_week[i] = current_day(TODAY)

recipes_for_today(TODAY) == weekly_recipes[day_index(TODAY)]

\* home_page: the Lets Gooo button, the header with the day, and for each
\* recipe of the day either the recipe or the error that it is missing
HomeWidgets(TODAY) ==
    LET names == {recipes_for_today(TODAY)[k] :
                     k \in 1..Len(recipes_for_today(TODAY))}
    IN  {"btn:Lets Gooo", "todays recipes", current_day(TODAY)}
        \cup (names \cap recipe_catalog)
        \cup (IF names \subseteq recipe_catalog THEN {}
              ELSE {"error:recipe missing"})

---------------------------------------------------------------------------
(* Pages.  rendered holds the widgets and messages the last run showed; a  *)
(* button can be pressed only when the last run rendered it.               *)

Home     == "Home"
Upload   == "Upload Images"
Identify == "Identify Ingredients"
Shelf    == "shelf"
Generate == "Generate Recipe"

\* the five buttons of the navigation bar of main()
NavPages == {Home, Upload, Identify, Shelf, Generate}

\* the test of identify_ingredients_page skipped: the page goes on without
\* images
no_images_never(imgs) == FALSE

\* 'if not st.session_state.images' of identify_ingredients_page: warn and
\* return
no_images(imgs) == imgs = <<>>

\* the loop over uploaded_files of upload_images_page (and the single
\* camera image): append what is_duplicate does not reject
RECURSIVE add_images(_, _)
add_images(gallery, files) ==
    IF files = <<>> THEN gallery
    ELSE IF ~is_duplicate(Head(files), gallery)
         THEN add_images(Append(gallery, Head(files)), Tail(files))
         ELSE add_images(gallery, Tail(files))

\* [item.strip() for item in text.split('\n') if item.strip()]
lines_of(text) ==
    SelectSeq(stripAll(split(text, "\n")), LAMBDA item : item # <<>>)

\* the text_area shows '\n'.join(ingredients); what it returns is stored back
text_area_value(ingr) == join("\n", ingr)

UploadWidgets(imgs) ==
    {"uploader", "btn:Back to Home", "btn:Next"}
    \cup (IF imgs # <<>> THEN {"gallery", "btn:Clear All Images"} ELSE {})

IdentifyWidgets ==
    {"btn:Identify", "text_area", "btn:Add to shelf",
     "btn:Back to Upload", "btn:Next to shelf"}

ShelfWidgets ==
    {"multiselect", "btn:Remove Ingredient", "btn:Clear Shelf",
     "btn:Back to items", "btn:Next Generate Recipe"}

GenerateWidgets(rec) ==
    {"btn:Generate Recipes", "btn:Back to shelf"}
    \cup (IF rec # <<>> THEN {"recipes"} ELSE {})

\* the rest of identify_ingredients_page after the Identify button:
\* with ingredients empty the block that binds ingredient_to_add is
\* skipped and the st.success line after it raises UnboundLocalError
identify_rest(ingr) ==
    IF ingr # <<>>
    THEN [ingredients |-> lines_of(text_area_value(ingr)),
          rendered    |-> IdentifyWidgets]
    ELSE [ingredients |-> ingr,
          rendered    |-> {"btn:Identify", "exception"}]

\* One run of main() in which no button of the page is pressed: the state
\* the page code leaves and what it renders.
FreshRun(pg, imgs, upl, ingr, shf, sel, rec, TODAY) ==
    LET base == [images |-> imgs, uploaded_files |-> <<>>,
                 ingredients |-> ingr, shelf |-> shf,
                 flags |-> <<>>, rendered |-> {}]
    IN  IF pg = Home THEN
            [base EXCEPT !.rendered = HomeWidgets(TODAY)]
        ELSE IF pg = Upload THEN
            LET gallery == add_images(imgs, upl)
            IN  [base EXCEPT !.images = gallery,
                             !.uploaded_files = upl,
                             !.rendered = UploadWidgets(gallery)]
        ELSE IF pg = Identify THEN
            IF no_images(imgs)
            THEN [base EXCEPT !.rendered = {"warning:no images"}]
            ELSE LET rest == identify_rest(ingr)
                 IN  [base EXCEPT !.ingredients = rest.ingredients,
                                  !.rendered = rest.rendered]
        ELSE IF pg = Shelf THEN
            IF shf = <<>>
            THEN [base EXCEPT !.rendered = {"warning:shelf empty"}]
            ELSE LET dated == default_expiry(shf, TODAY)
                 IN  [base EXCEPT !.shelf = dated,
                                  !.flags = shelf_flags(dated, TODAY),
                                  !.rendered = ShelfWidgets]
        ELSE IF pg = Generate THEN
            IF shf = <<>>
            THEN [base EXCEPT !.rendered = {"warning:shelf empty"}]
            ELSE IF sel = <<>>
            THEN [base EXCEPT !.rendered = {"warning:no selection"}]
            ELSE [base EXCEPT !.rendered = GenerateWidgets(rec)]
        ELSE base       \* main() dispatches on no other page value

\* the days the clock may show at the next run, in a session that ends
\* on day last
Days(t, last) == {t} \cup (IF t < last THEN {t + 1} ELSE {})

\* the session state a run leaves: r holds what the page code wrote
Commit(pg, r, sel, rec, TODAY, ncalls, nreports) ==
    /\ page' = pg
    /\ calls' = ncalls
    /\ reports' = nreports
    /\ recipes' = rec
    /\ selected_items' = sel
    /\ today' = TODAY
    /\ images' = r.images
    /\ uploaded_files' = r.uploaded_files
    /\ ingredients' = r.ingredients
    /\ shelf' = r.shelf
    /\ rendered' = r.rendered
    /\ flags' = r.flags

\* the session after a run of page pg with no page button pressed
Show(pg, imgs, upl, ingr, shf, sel, rec, TODAY) ==
    Commit(pg, FreshRun(pg, imgs, upl, ingr, shf, sel, rec, TODAY),
           sel, rec, TODAY, 0, 0)

\* init_session_state, then the first run renders the Home page
Init ==
    /\ page = Home
    /\ images = <<>>
    /\ uploaded_files = <<>>
    /\ ingredients = <<>>
    /\ recipes = <<>>
    /\ shelf = PantryItems
    /\ selected_items = <<>>
    /\ today = Day0
    /\ rendered = HomeWidgets(Day0)
    /\ flags = <<>>
    /\ calls = 0
    /\ reports = 0

---------------------------------------------------------------------------
(* The inputs of the interactions.                                         *)

\* what the recognition model answers for one image
ResponseTexts ==
    { Tomato \o <<",", " ">> \o tomato,                 \* "Tomato, tomato"
      <<" ">> \o Tomato \o <<",">> \o Tomato \o <<"\n">>, \* " Tomato,Tomato\n"
      Salt,                                             \* "Salt"
      <<" ", ",">> }                                    \* " ,"
Responses == {Raised} \cup {Returned(t) : t \in ResponseTexts}

\* st.number_input("Quantity", min_value=1, step=1)
MinQuantity == 1
QuantityChoices == {MinQuantity, 2, 3}

\* st.date_input("Expiry Date"): a passed day, days in, at the end of and
\* past the two-day window
ExpiryChoices == {Day0 - 1, Day0 + 1, Day0 + 2, Day0 + 3}

\* st.slider("Number of recipes", min_value=1, max_value=5)
MinRecipes == 1
MaxRecipes == 5

\* what the text model does at its k-th call: raise, or return a text
RecipeTexts == <<"recipe 1", "recipe 2", "recipe 3", "recipe 4", "recipe 5">>
OutcomeLists(n) ==
    {[k \in 1..n |-> IF k \in S THEN Returned(RecipeTexts[k]) ELSE RaisedText] :
        S \in SUBSET (1..n)}

\* st.multiselect over the shelf names: a selection, in shelf order
Selections(shf) ==
    {SelectSeq([i \in 1..Len(shf) |-> shf[i].Ingredient],
               LAMBDA name : name \in S) :
        S \in SUBSET {shf[i].Ingredient : i \in 1..Len(shf)}}

---------------------------------------------------------------------------
(* The interactions.  Each reads the clock once: d is the day of the run,   *)
(* which may be later than the day of the last run.                        *)

\* a button of the navigation bar of main(): no guard, the page is
\* dispatched in the same run
Navigate(p, d) ==
    Show(p, images, uploaded_files, ingredients, shelf,
         selected_items, recipes, d)

\* any other widget interaction: the current page runs again
Rerun(d) ==
    Show(page, images, uploaded_files, ingredients, shelf,
               selected_items, recipes, d)

LetsGooo(d) ==
    /\ "btn:Lets Gooo" \in rendered
    /\ Show(Upload, images, <<>>, ingredients, shelf,
               selected_items, recipes, d)

\* the file_uploader gets a batch of files (Upload Images option)
UploadFiles(batch, d) ==
    /\ "uploader" \in rendered
    /\ Show(Upload, images, batch, ingredients, shelf,
               selected_items, recipes, d)

\* the camera_input gets a picture (Take Pictures option)
TakePicture(camera_image, d) ==
    /\ "uploader" \in rendered
    /\ Show(Upload, images, <<camera_image>>, ingredients, shelf,
               selected_items, recipes, d)

\* images = [] and st.rerun(): the next run finds the widget's files again
ClearAllImages(d) ==
    /\ "btn:Clear All Images" \in rendered
    /\ Show(Upload, <<>>, uploaded_files, ingredients, shelf,
               selected_items, recipes, d)

BackToHome(d) ==
    /\ "btn:Back to Home" \in rendered
    /\ Show(Home, images, uploaded_files, ingredients, shelf,
               selected_items, recipes, d)

\* 'Next' of the upload page: refused with st.error while the gallery is empty
NextToIdentify(d) ==
    /\ "btn:Next" \in rendered
    /\ IF add_images(images, uploaded_files) = <<>>
          THEN LET r == FreshRun(Upload, images, uploaded_files, ingredients,
                                 shelf, selected_items, recipes, d)
               IN  Commit(Upload,
                          [r EXCEPT !.rendered = @ \cup {"error:no images"}],
                          selected_items, recipes, d, 0, 0)
          ELSE /\ Show(Identify, add_images(images, uploaded_files), <<>>,
                       ingredients, shelf, selected_items, recipes, d)

\* the Identify Ingredients button: identify_items, then the rest of the page
PressIdentify(responses, d) ==
    /\ "btn:Identify" \in rendered
    /\ IF no_images(images)
          THEN Show(Identify, images, <<>>, ingredients, shelf,
                    selected_items, recipes, d)
          ELSE LET got == identify_items(images, responses)
               IN  \E identified_items \in got.results :
                      LET rest == identify_rest(identified_items)
                      IN  Commit(Identify,
                                 [images |-> images, uploaded_files |-> <<>>,
                                  ingredients |-> rest.ingredients,
                                  shelf |-> shelf, flags |-> <<>>,
                                  rendered |-> rest.rendered
                                      \cup {"spinner:Analyzing"}],
                                 selected_items, recipes, d,
                                 got.calls, got.reports)

\* the user changes the text area: its lines become the ingredients
EditIngredients(text, d) ==
    /\ "text_area" \in rendered
    /\ ingredients # <<>>
    /\ Commit(Identify,
                 [images |-> images, uploaded_files |-> <<>>,
                  ingredients |-> lines_of(text), shelf |-> shelf,
                  flags |-> <<>>, rendered |-> IdentifyWidgets],
                 selected_items, recipes, d, 0, 0)

\* 'Add to shelf' with the selectbox, number_input and date_input values
AddToShelf(ingredient_to_add, quantity, expiry_date, d) ==
    /\ "btn:Add to shelf" \in rendered
    /\ ingredients # <<>>
    /\ ingredient_to_add \in Range(ingredients)
    /\ \A i \in 1..Len(shelf) :
          shelf[i].Ingredient = ingredient_to_add
              => shelf[i].Quantity + quantity <= MaxQuantity
    /\ Commit(Identify,
                 [images |-> images, uploaded_files |-> <<>>,
                  ingredients |-> lines_of(text_area_value(ingredients)),
                  shelf |-> add_to_shelf(shelf, ingredient_to_add,
                                         quantity, expiry_date),
                  flags |-> <<>>, rendered |-> IdentifyWidgets],
                 selected_items, recipes, d, 0, 0)

BackToUpload(d) ==
    /\ "btn:Back to Upload" \in rendered
    /\ ingredients # <<>>
    /\ Show(Upload, images, <<>>, ingredients, shelf,
               selected_items, recipes, d)

NextToShelf(d) ==
    /\ "btn:Next to shelf" \in rendered
    /\ ingredients # <<>>
    /\ Show(Shelf, images, <<>>, ingredients, shelf,
               selected_items, recipes, d)

\* 'Remove Ingredient' with the selectbox value, then st.rerun()
RemoveIngredient(ingredient_to_remove, d) ==
    /\ "btn:Remove Ingredient" \in rendered
    /\ \E i \in 1..Len(shelf) : shelf[i].Ingredient = ingredient_to_remove
    /\ Show(Shelf, images, <<>>, ingredients,
               remove_ingredient(default_expiry(shelf, d), ingredient_to_remove),
               selected_items, recipes, d)

\* 'Clear Shelf', then st.rerun()
ClearShelf(d) ==
    /\ "btn:Clear Shelf" \in rendered
    /\ Show(Shelf, images, <<>>, ingredients, <<>>,
               selected_items, recipes, d)

\* 'Back to items' stores a page name main() does not dispatch on
BackToItems(d) ==
    /\ "btn:Back to items" \in rendered
    /\ Show("Identify items", images, <<>>, ingredients,
               default_expiry(shelf, d), selected_items, recipes, d)

\* 'Next Generate Recipe' stores the multiselect value, whatever it is
NextGenerateRecipe(selected, d) ==
    /\ "btn:Next Generate Recipe" \in rendered
    /\ Show(Generate, images, <<>>, ingredients,
               default_expiry(shelf, d), selected, recipes, d)

\* 'Generate Recipes' with the slider value; outcomes[k] is what the text
\* model does at the k-th call.  The run returns before the button when
\* the shelf is empty.
GenerateRecipes(num_recipes, outcomes, d) ==
    /\ "btn:Generate Recipes" \in rendered
    /\ IF shelf = <<>> \/ selected_items = <<>>
          THEN Show(Generate, images, <<>>, ingredients, shelf,
                    selected_items, recipes, d)
          ELSE LET got == generate_multiple_recipes(selected_items, outcomes,
                                                    num_recipes)
               IN  Commit(Generate,
                          [images |-> images, uploaded_files |-> <<>>,
                           ingredients |-> ingredients,
                           shelf |-> shelf_after_generation(shelf, selected_items,
                                                            got.recipes),
                           flags |-> <<>>,
                           rendered |-> GenerateWidgets(got.recipes)
                               \cup {"spinner:Generating"}],
                          selected_items, got.recipes, d,
                          got.calls, got.reports)

\* 'Back to shelf' is the last statement of generate_recipe_page: a run that
\* returns at the empty-shelf warning never reaches it
BackToShelf(d) ==
    /\ "btn:Back to shelf" \in rendered
    /\ IF shelf = <<>> \/ selected_items = <<>>
          THEN Show(Generate, images, <<>>, ingredients, shelf,
                    selected_items, recipes, d)
          ELSE Show(Shelf, images, <<>>, ingredients, shelf,
                    selected_items, recipes, d)

---------------------------------------------------------------------------
(* The session.  W gives the values the user and the external models may   *)
(* supply: the specifications below differ only in these.                  *)

Session(W) ==
    \/ \E p \in NavPages, d \in Days(today, W.lastDay) : Navigate(p, d)
    \/ \E d \in Days(today, W.lastDay) : Rerun(d)
    \/ \E d \in Days(today, W.lastDay) : LetsGooo(d)
    \/ \E batch \in W.batches, d \in Days(today, W.lastDay) :
          UploadFiles(batch, d)
    \/ \E camera_image \in W.cameras, d \in Days(today, W.lastDay) :
          TakePicture(camera_image, d)
    \/ \E d \in Days(today, W.lastDay) : ClearAllImages(d)
    \/ \E d \in Days(today, W.lastDay) : BackToHome(d)
    \/ \E d \in Days(today, W.lastDay) : NextToIdentify(d)
    \/ \E responses \in [1..Len(images) -> W.responses],
          d \in Days(today, W.lastDay) : PressIdentify(responses, d)
    \/ \E text \in W.edits, d \in Days(today, W.lastDay) :
          EditIngredients(text, d)
    \/ \E name \in Range(ingredients), quantity \in W.quantities,
          expiry_date \in W.expiries, d \in Days(today, W.lastDay) :
          AddToShelf(name, quantity, expiry_date, d)
    \/ \E d \in Days(today, W.lastDay) : BackToUpload(d)
    \/ \E d \in Days(today, W.lastDay) : NextToShelf(d)
    \/ \E name \in W.removals, d \in Days(today, W.lastDay) :
          RemoveIngredient(name, d)
    \/ \E d \in Days(today, W.lastDay) : ClearShelf(d)
    \/ \E d \in Days(today, W.lastDay) : BackToItems(d)
    \/ \E selected \in {x \in Selections(shelf) : Range(x) \in W.selections},
          d \in Days(today, W.lastDay) : NextGenerateRecipe(selected, d)
    \/ \E n \in W.nums, d \in Days(today, W.lastDay) :
          \E outcomes \in OutcomeLists(n) : GenerateRecipes(n, outcomes, d)
    \/ \E d \in Days(today, W.lastDay) : BackToShelf(d)

\* the whole session on one day, each input taken from a few
\* representative values
SessionInputs ==
    [batches    |-> {<<1, 2>>, <<3>>},
     cameras    |-> {3},
     responses  |-> {Raised, Returned(Salt \o <<",", " ">> \o tomato)},
     edits      |-> {Tomato \o <<"\n">> \o Tomato},
     quantities |-> {MaxQuantity},
     expiries   |-> {Day0 + 1},
     removals   |-> {Salt, OliveOil},
     selections |-> {{}, {Salt, Pepper}, {Garlic}},
     nums       |-> {MinRecipes},
     lastDay    |-> Day0]

Next == Session(SessionInputs)

Spec == Init /\ [][Next]_vars

\* the shelf operations on one recognised name with every quantity and
\* expiry date, and one gallery, one recognition answer and one recipe
ShelfInputs ==
    [batches    |-> {<<1>>},
     cameras    |-> {1},
     responses  |-> {Returned(<<" ">> \o Salt)},
     edits      |-> {<<>>},
     quantities |-> QuantityChoices,
     expiries   |-> ExpiryChoices,
     removals   |-> {Salt},
     selections |-> {{Pepper}},
     nums       |-> {MinRecipes},
     lastDay    |-> MaxDay]

SpecShelf == Init /\ [][Session(ShelfInputs)]_vars

\* The shelf and Generate Recipe pages alone, reached through the
\* navigation bar, with every slider value and every outcome of the calls
\* of the text model.
NextGenerate ==
    \/ \E p \in {Shelf, Generate} : Navigate(p, Day0)
    \/ Rerun(Day0)
    \/ \E selected \in {x \in Selections(shelf) :
                          Range(x) \in {{}, {Salt, Pepper}, {Garlic}}} :
          NextGenerateRecipe(selected, Day0)
    \/ \E n \in MinRecipes..MaxRecipes : \E outcomes \in OutcomeLists(n) :
          GenerateRecipes(n, outcomes, Day0)
    \/ BackToShelf(Day0)

SpecGenerate == Init /\ [][NextGenerate]_vars

\* upload batches: up to MaxFiles files, the same file twice included
Batches == UNION {[1..n -> Images] : n \in 0..MaxFiles}

\* The Home and Upload Images pages with every upload batch and every
\* camera picture, up to the step into the Identify Ingredients page.
NextUpload ==
    \/ \E p \in {Home, Upload} : Navigate(p, Day0)
    \/ Rerun(Day0)
    \/ LetsGooo(Day0)
    \/ \E batch \in Batches : UploadFiles(batch, Day0)
    \/ \E camera_image \in Images : TakePicture(camera_image, Day0)
    \/ ClearAllImages(Day0)
    \/ BackToHome(Day0)
    \/ NextToIdentify(Day0)

SpecUpload == Init /\ [][NextUpload]_vars

\* The home page on every day of a week: the session starts on any of
\* seven consecutive days and goes between the Home, Upload Images and
\* shelf pages, the clock advancing between runs.
InitAnyDay ==
    /\ page = Home
    /\ images = <<>>
    /\ uploaded_files = <<>>
    /\ ingredients = <<>>
    /\ recipes = <<>>
    /\ shelf = PantryItems
    /\ selected_items = <<>>
    /\ today \in Day0 .. Day0 + Len(days_of_week) - 1
    /\ rendered = HomeWidgets(today)
    /\ flags = <<>>
    /\ calls = 0
    /\ reports = 0

NextHome ==
    \/ \E p \in {Home, Upload, Shelf},
          d \in Days(today, Day0 + Len(days_of_week)) : Navigate(p, d)
    \/ \E d \in Days(today, Day0 + Len(days_of_week)) : Rerun(d)
    \/ \E d \in Days(today, Day0 + Len(days_of_week)) : LetsGooo(d)
    \/ \E d \in Days(today, Day0 + Len(days_of_week)) : BackToHome(d)

SpecHome == InitAnyDay /\ [][NextHome]_vars

---------------------------------------------------------------------------
(* identify_items as a function: started on any list of images, with any   *)
(* answers of the recognition model.                                       *)

ImageLists == UNION {[1..n -> Images] : n \in 0..MaxBatch}

\* identified_items = identify_items(images); ingredients = identified_items,
\* applied once to the list of images the behaviour started with
IdentifyItems(responses) ==
    /\ calls = 0
    /\ LET got == identify_items(images, responses)
       IN  /\ ingredients' \in got.results
           /\ calls' = got.calls
           /\ reports' = got.reports
    /\ UNCHANGED <<page, images, uploaded_files, recipes, shelf,
                   selected_items, today, rendered, flags>>

InitIdentifyItems ==
    /\ images \in ImageLists
    /\ page = Identify
    /\ uploaded_files = <<>>
    /\ ingredients = <<>>
    /\ recipes = <<>>
    /\ shelf = PantryItems
    /\ selected_items = <<>>
    /\ today = Day0
    /\ rendered = {}
    /\ flags = <<>>
    /\ calls = 0
    /\ reports = 0

NextIdentifyItems ==
    \E responses \in [1..Len(images) -> Responses] : IdentifyItems(responses)

SpecIdentifyItems == InitIdentifyItems /\ [][NextIdentifyItems]_vars

---------------------------------------------------------------------------
(* Properties.                                                             *)

Names(shf) == [i \in 1..Len(shf) |-> shf[i].Ingredient]

\* the positions of shf holding the name
Positions(shf, name) == {i \in 1..Len(shf) : shf[i].Ingredient = name}

\* C1: in every reachable state of the session the shelf holds at most one
\* item per Ingredient name.
C1_OneItemPerName ==
    \A i, j \in 1..Len(shelf) :
        shelf[i].Ingredient = shelf[j].Ingredient => i = j

\* C1 witness: Salt was merged into the seeded item (still first, before
\* Pepper), tomato was appended, and a generation has consumed items.
C1_Witness ==
    /\ Len(shelf) >= 3
    /\ shelf[1].Ingredient = Salt /\ shelf[1].Quantity > 0
    /\ shelf[2].Ingredient = Pepper
    /\ shelf[Len(shelf)].Ingredient = tomato
    /\ recipes # <<>>

\* one Add to shelf step, with any of the inputs of the model
AddStep(name, quantity, expiry_date) ==
    \E d \in Days(today, MaxDay) : AddToShelf(name, quantity, expiry_date, d)

\* C2: Add to shelf of (name, quantity, expiry): when the shelf has an item
\* of that name, that item gets Quantity + quantity and the given Expiry and
\* the number of items is unchanged; otherwise one item {name, quantity,
\* expiry} is appended; every other item is unchanged.  Adding (Salt, 2, d2)
\* to a shelf whose only Salt item has Quantity 3 leaves exactly one Salt
\* item, with Quantity 5 and Expiry d2.
C2_AddOrMerge ==
    [][ \A name \in Range(ingredients), quantity \in QuantityChoices,
           expiry_date \in ExpiryChoices :
          AddStep(name, quantity, expiry_date) =>
            LET at == Positions(shelf, name)
            IN  /\ at # {} =>
                    /\ Len(shelf') = Len(shelf)
                    /\ \A i \in 1..Len(shelf) :
                          IF i \in at
                          THEN /\ shelf'[i].Ingredient = name
                               /\ shelf'[i].Quantity = shelf[i].Quantity + quantity
                               /\ shelf'[i].Expiry = expiry_date
                          ELSE shelf'[i] = shelf[i]
                /\ at = {} =>
                    /\ Len(shelf') = Len(shelf) + 1
                    /\ shelf'[Len(shelf')] = [Ingredient |-> name,
                                              Quantity   |-> quantity,
                                              Expiry     |-> expiry_date]
                    /\ \A i \in 1..Len(shelf) : shelf'[i] = shelf[i]
                /\ (/\ name = Salt /\ quantity = 2
                    /\ Cardinality(at) = 1
                    /\ \A i \in at : shelf[i].Quantity = 3)
                   => /\ Cardinality(Positions(shelf', Salt)) = 1
                      /\ \A i \in Positions(shelf', Salt) :
                            /\ shelf'[i].Quantity = 5
                            /\ shelf'[i].Expiry = expiry_date ]_vars

\* C2 witness: the seeded Salt was removed, Salt was added again (it is now
\* the last item) and merged up to Quantity 5.
C2_Witness ==
    /\ Len(shelf) = 4
    /\ shelf[1].Ingredient = Pepper
    /\ shelf[4] = [Ingredient |-> Salt, Quantity |-> 5, Expiry |-> Day0 + 3]
    /\ page = Identify

\* the i-th item of shf, in order, whose name is not in the set names
KeptItem(shf, names, k) ==
    LET kept == {i \in 1..Len(shf) : shf[i].Ingredient \notin names}
    IN  shf[CHOOSE i \in kept : Cardinality({j \in kept : j <= i}) = k]

\* a run in which Generate Recipes is pressed and generation is reached
GenerateStep ==
    /\ "btn:Generate Recipes" \in rendered
    /\ shelf # <<>>
    /\ selected_items # <<>>
    /\ \E n \in MinRecipes..MaxRecipes : \E outcomes \in OutcomeLists(n) :
          \E d \in Days(today, MaxDay) : GenerateRecipes(n, outcomes, d)

\* C3: pressing Generate Recipes removes every shelf item whose name is
\* selected and keeps every other item, in the same order; consuming
\* {Salt, Pepper} from a shelf of Salt, Pepper, Garlic leaves only Garlic.
C3_Consume ==
    [][ GenerateStep =>
          LET names == Range(selected_items)
              kept  == {i \in 1..Len(shelf) : shelf[i].Ingredient \notin names}
          IN  /\ Len(shelf') = Cardinality(kept)
              /\ \A k \in 1..Len(shelf') : shelf'[k] = KeptItem(shelf, names, k)
              /\ (Names(shelf) = <<Salt, Pepper, Garlic>>
                     /\ names = {Salt, Pepper})
                    => Names(shelf') = <<Garlic>> ]_vars

\* C3 witness: the run that generated one recipe from Salt and Pepper left
\* only Garlic on the shelf.
C3_Witness ==
    /\ Names(shelf) = <<Garlic>>
    /\ selected_items = <<Salt, Pepper>>
    /\ page = Generate
    /\ calls = 1
    /\ Len(recipes) = 1

\* the shelf page rendered its items in the last run
ShelfShown == page = Shelf /\ "multiselect" \in rendered

\* C4: for every item the shelf page shows, with the day of that run:
\* LowQuantity iff Quantity < 2, Expired iff Expiry < today, ExpiringSoon
\* iff today <= Expiry <= today + 2; never Expired and ExpiringSoon at once.
C4_Flags ==
    ShelfShown =>
        /\ Len(flags) = Len(shelf)
        /\ \A i \in 1..Len(shelf) :
              /\ "LowQuantity" \in flags[i] <=> shelf[i].Quantity < 2
              /\ "Expired" \in flags[i] <=> shelf[i].Expiry < today
              /\ "ExpiringSoon" \in flags[i]
                    <=> (today <= shelf[i].Expiry /\ shelf[i].Expiry <= today + 2)
              /\ ~("Expired" \in flags[i] /\ "ExpiringSoon" \in flags[i])
              /\ flags[i] \subseteq {"LowQuantity", "Expired", "ExpiringSoon"}

\* C4 witness: the shelf page shows an expired item that is not low, and a
\* low item that is neither expired nor expiring.
C4_Witness ==
    /\ ShelfShown
    /\ \E i \in 1..Len(shelf) : flags[i] = {"Expired"}
    /\ \E j \in 1..Len(shelf) : flags[j] = {"LowQuantity"}

\* C5: no sequence of user actions reaches a page run that ends in an
\* uncaught exception: every run renders its page to the end.
C5_NoUncaughtException == "exception" \notin rendered

\* C6: missing input blocks progression: Next on the upload page with an
\* empty gallery leaves the page at Upload Images, Next Generate Recipe with
\* nothing selected leaves the page at shelf, and the page is never Identify
\* Ingredients with an empty gallery nor Generate Recipe with an empty shelf
\* or an empty selection.
C6_InputBlocksProgress ==
    [][ /\ (images = <<>> /\ \E d \in Days(today, MaxDay) : NextToIdentify(d))
            => page' = Upload
        /\ (\E d \in Days(today, MaxDay) : NextGenerateRecipe(<<>>, d))
            => page' = Shelf
        /\ ~(page' = Identify /\ images' = <<>>)
        /\ ~(page' = Generate /\ (shelf' = <<>> \/ selected_items' = <<>>)) ]_vars

\* a run in which Generate Recipes is pressed with slider value n, the
\* calls of the text model doing what outcomes says, and generation reached
GenerateRun(n, outcomes) ==
    /\ "btn:Generate Recipes" \in rendered
    /\ shelf # <<>>
    /\ selected_items # <<>>
    /\ \E d \in Days(today, MaxDay) : GenerateRecipes(n, outcomes, d)

\* C7: for n in 1..5, generation makes exactly n calls of the generator and
\* the recipes list of the session has exactly n elements, the k-th being
\* the result of the k-th call, whether the calls succeed or fail.
C7_ExactlyNRecipes ==
    [][ \A n \in 1..5 : \A outcomes \in OutcomeLists(n) :
          GenerateRun(n, outcomes) =>
            /\ calls' = n
            /\ Len(recipes') = n
            /\ \A k \in 1..n :
                  outcomes[k].ok => recipes'[k] = outcomes[k].text ]_vars

\* C7 witness: five recipes from five calls, the first of which failed
\* and the last of which returned.
C7_Witness ==
    /\ calls = 5
    /\ Len(recipes) = 5
    /\ recipes[1] = "Unable to generate recipe. Please try again."
    /\ recipes[5] = "recipe 5"

\* C8: a text-generation call that fails is reported and yields the fixed
\* string; the failure does not leave generate_recipe: the calls after it
\* are made and the page is rendered to the end.
C8_FallbackOnFailure ==
    [][ \A n \in 1..5 : \A outcomes \in OutcomeLists(n) :
          GenerateRun(n, outcomes) =>
            LET failed == {k \in 1..n : ~outcomes[k].ok}
            IN  /\ reports' = Cardinality(failed)
                /\ \A k \in failed :
                      /\ k <= Len(recipes')
                      /\ recipes'[k] = "Unable to generate recipe. Please try again."
                /\ failed # {} => calls' = n
                /\ "exception" \notin rendered'
                /\ {"recipes", "btn:Back to shelf"} \subseteq rendered' ]_vars

\* C8 witness: the first of two calls failed, the second was still made
\* and returned.
C8_Witness ==
    /\ recipes = <<"Unable to generate recipe. Please try again.", "recipe 2">>
    /\ reports = 1
    /\ calls = 2
    /\ "recipes" \in rendered

\* the names in the comma-separated answer text
Tokens(text) == Range(stripAll(split(text, ",")))

NoRepeat(list) == \A i, j \in 1..Len(list) : list[i] = list[j] => i = j

\* C9: an image whose recognition call fails contributes no item and one
\* error report, the images after it are still processed (one call per
\* image), and the result holds exactly the items of the images whose call
\* succeeded, each once.
C9_FailedImageSkipped ==
    [][ \A responses \in [1..Len(images) -> Responses] :
          IdentifyItems(responses) =>
            LET succeeded == {i \in 1..Len(images) : responses[i].ok}
            IN  /\ Range(ingredients')
                     = UNION {Tokens(responses[i].text) : i \in succeeded}
                /\ NoRepeat(ingredients')
                /\ reports' = Len(images) - Cardinality(succeeded)
                /\ calls' = Len(images) ]_vars

\* C9 witness: of two images the first failed and the second was
\* recognised.
C9_Witness ==
    /\ Len(images) = 2
    /\ calls = 2
    /\ reports = 1
    /\ Salt \in Range(ingredients)

\* C10: identify_items of no image returns an empty list, and its result
\* never repeats an entry, names being the same only when equal after
\* trimming: Tomato and tomato are both kept.
C10_Deduplicated ==
    [][ \A responses \in [1..Len(images) -> Responses] :
          IdentifyItems(responses) =>
            /\ images = <<>> => ingredients' = <<>>
            /\ NoRepeat(ingredients')
            /\ \A i \in 1..Len(images) :
                  (responses[i].ok /\ {Tomato, tomato} \subseteq Tokens(responses[i].text))
                     => {Tomato, tomato} \subseteq Range(ingredients') ]_vars

\* C10 witness: a result with Tomato and tomato, from answers that named
\* Tomato three times.
C10_Witness ==
    /\ Len(images) = 2
    /\ reports = 0
    /\ calls = 2
    /\ Range(ingredients) = {Tomato, tomato}

\* C11: an answer without a comma yields the one item that is the whole
\* trimmed answer, an answer whose comma-separated tokens are all empty or
\* whitespace yields no item, and the result never holds the empty name.
C11_MalformedResponse ==
    [][ \A responses \in [1..Len(images) -> Responses] :
          IdentifyItems(responses) =>
            /\ \A i \in 1..Len(images) :
                  (responses[i].ok /\ find(responses[i].text, ",", 1) = 0)
                      => strip(responses[i].text) \in Range(ingredients')
            /\ (\A i \in 1..Len(images) :
                    responses[i].ok => Tokens(responses[i].text) = {<<>>})
                  => ingredients' = <<>>
            /\ <<>> \notin Range(ingredients') ]_vars

Bytes(imgs) == {image_to_bytes(imgs[i]) : i \in 1..Len(imgs)}

\* the gallery holds no two images with the same encoded bytes
NoSameBytes(imgs) ==
    \A i, j \in 1..Len(imgs) :
        image_to_bytes(imgs[i]) = image_to_bytes(imgs[j]) => i = j

\* the run of the upload page on the files, started with the gallery
\* before: the gallery is extended at its end, by files only, and every
\* file's bytes are in it afterwards
Extended(before, files, after) ==
    /\ Len(after) >= Len(before)
    /\ SubSeq(after, 1, Len(before)) = before
    /\ \A k \in Len(before) + 1 .. Len(after) : after[k] \in Range(files)
    /\ Bytes(after) = Bytes(before) \cup Bytes(files)

\* C12: after any captures, uploads (the same file several times in one
\* batch included) and Clear All Images the gallery never holds two images
\* with the same encoded bytes; a candidate is appended iff no image of the
\* gallery at that moment has its bytes.
C12_NoDuplicateImages ==
    [][ /\ NoSameBytes(images')
        /\ UploadFiles(uploaded_files', Day0)
              => Extended(images, uploaded_files', images')
        /\ \A camera_image \in Images :
              TakePicture(camera_image, Day0)
                  => Extended(images, <<camera_image>>, images')
        /\ ClearAllImages(Day0) => Extended(<<>>, uploaded_files, images') ]_vars

\* C12 witness: after a camera picture of image 3, a batch of image 1,
\* image 2, which encodes to the same bytes, and image 1 again added
\* image 1 only.
C12_Witness ==
    /\ page = Upload
    /\ uploaded_files = <<1, 2, 1>>
    /\ images = <<3, 1>>

\* C13: an item without Expiry gets Expiry = today + 7 days by the first
\* run of the shelf page that shows it, before the flags are computed; an
\* item that has an Expiry keeps it, so a default given on one day is not
\* moved by a later run; the flags are never computed from a missing Expiry.
C13_DefaultExpiry ==
    [][ (page' = Shelf /\ "multiselect" \in rendered') =>
          /\ Len(flags') = Len(shelf')
          /\ \A j \in 1..Len(shelf') :
                /\ shelf'[j].Expiry # NoExpiry
                /\ \E i \in 1..Len(shelf) :
                      /\ shelf[i].Ingredient = shelf'[j].Ingredient
                      /\ shelf[i].Quantity = shelf'[j].Quantity
                      /\ shelf'[j].Expiry =
                            IF shelf[i].Expiry = NoExpiry
                            THEN today' + DefaultExpiryDays
                            ELSE shelf[i].Expiry ]_vars

\* C13 witness: the shelf page shown on the last day with an item whose
\* Expiry is the default of the first day.
C13_Witness ==
    /\ ShelfShown
    /\ today = MaxDay
    /\ \E i \in 1..Len(shelf) : shelf[i].Expiry = Day0 + DefaultExpiryDays

\* C14: Remove Ingredient deletes the item of the chosen name and leaves the
\* other items and their order as they are; a name that is not on the shelf
\* removes nothing; Clear Shelf leaves the shelf empty, and no later run
\* puts the pantry items back: an empty shelf stays empty until Add to shelf
\* puts one item on it.
C14_RemoveAndClear ==
    [][ /\ \A name \in {Salt, OliveOil} :
              RemoveIngredient(name, Day0) =>
                /\ Len(shelf') = Len(shelf) - 1
                /\ name \notin Range(Names(shelf'))
                /\ \A k \in 1..Len(shelf') :
                      shelf'[k] = KeptItem(shelf, {name}, k)
        /\ \A name \in {Salt, OliveOil, Tomato} :
              name \notin Range(Names(shelf))
                  => remove_ingredient(shelf, name) = shelf
        /\ ClearShelf(Day0) => shelf' = <<>>
        /\ (shelf = <<>> /\ shelf' # <<>>) =>
              /\ Len(shelf') = 1
              /\ "btn:Add to shelf" \in rendered
              /\ page' = Identify ]_vars

\* C14 witness: Salt and Olive Oil were removed and the shelf page shows
\* Pepper and Garlic, in that order.
C14_Witness ==
    /\ ShelfShown
    /\ Names(shelf) = <<Pepper, Garlic>>

\* C15: the schedule has seven entries, one per weekday Monday..Sunday,
\* each of two recipe names, every name a key of the catalog; the home page
\* shows both recipes of the day and never the error that one is missing.
C15_WeeklySchedule ==
    /\ Len(weekly_recipes) = 7
    /\ days_of_week = <<"Monday", "Tuesday", "Wednesday", "Thursday",
                        "Friday", "Saturday", "Sunday">>
    /\ \A i \in 1..Len(weekly_recipes) :
          /\ Len(weekly_recipes[i]) = 2
          /\ \A k \in 1..2 : weekly_recipes[i][k] \in recipe_catalog
    /\ page = Home =>
          /\ "error:recipe missing" \notin rendered
          /\ \A k \in 1..2 :
                weekly_recipes[(today % 7) + 1][k] \in rendered

\* C15 witness: the home page rendered again on a Sunday, after the shelf
\* page was visited, with the two recipes of the Sunday shown.
C15_Witness ==
    /\ page = Home
    /\ shelf[1].Expiry # NoExpiry
    /\ "Sunday" \in rendered
    /\ "Pumpkin Risotto" \in rendered
    /\ "Ginger Garlic Fried Rice" \in rendered

\* C16: whatever page the user goes to, identify_items is never run on an
\* empty gallery and generate_multiple_recipes is never run while the shelf
\* or the stored selection is empty.
C16_NoCallWithoutInput ==
    [][ /\ "spinner:Analyzing" \in rendered' => (images # <<>> /\ calls' > 0)
        /\ "spinner:Generating" \in rendered'
              => (shelf # <<>> /\ selected_items # <<>>) ]_vars

\* C16 witness: a generation has just run, after an identification on a
\* non-empty gallery gave the ingredients.
C16_Witness ==
    /\ "spinner:Generating" \in rendered
    /\ ingredients # <<>>
    /\ images # <<>>

\* C17: in every reachable state the page of the session is one of the
\* five pages main() dispatches on, and the run has rendered that page.
C17_PageIsDispatched ==
    /\ page \in {"Home", "Upload Images", "Identify Ingredients", "shelf",
                 "Generate Recipe"}
    /\ rendered # {}

\* C18: every time recipe generation runs, each name passed to it is the
\* name of an item on the shelf at that moment: the stored selection holds
\* only names of the shelf, also after a generation consumed items or items
\* were removed on the shelf page.
C18_SelectionOnShelf ==
    [][ "spinner:Generating" \in rendered'
            => Range(selected_items) \subseteq Range(Names(shelf)) ]_vars

\* C19: whenever the Generate Recipe page is rendered while the recipes
\* list of the session is non-empty, the recipes and the Back to shelf
\* button are rendered, also after a generation whose consumption emptied
\* the shelf.
C19_RecipesShown ==
    (page = Generate /\ recipes # <<>>)
        => {"recipes", "btn:Back to shelf"} \subseteq rendered

\* C20: pressing Generate Recipes removes the selected items from the shelf
\* whatever the calls do: the shelf is depleted also when every call failed
\* and the recipes list holds only the fixed string.
C20_ConsumedOnFailure ==
    [][ "spinner:Generating" \in rendered' =>
          /\ Range(Names(shelf'))
                = Range(Names(shelf)) \ Range(selected_items)
          /\ reports' = calls' =>
                \A k \in 1..Len(recipes') :
                    recipes'[k] = "Unable to generate recipe. Please try again." ]_vars

\* C20 witness: both calls of a generation for Garlic failed, and Garlic is
\* off the shelf.
C20_Witness ==
    /\ "spinner:Generating" \in rendered
    /\ selected_items = <<Garlic>>
    /\ calls = 2 /\ reports = 2
    /\ recipes = <<"Unable to generate recipe. Please try again.",
                   "Unable to generate recipe. Please try again.">>
    /\ Names(shelf) = <<Salt, Pepper, OliveOil>>

=============================================================================
